---- MODULE Spec2Model ----
(***************************************************************************)
(* Model of the semantic-analysis core of angel-lsp:                      *)
(*   - the symbol table (src/unnamed/part_000, lines 1-247): symbols,      *)
(*     scopes, insertSymbolicObject, resolveTemplateType, lookups          *)
(*   - the overload resolver (src/unnamed/part_000, lines 249-331):        *)
(*     checkFunctionMatch                                                  *)
(*   - checkType.ts (src/server/src/compile/checkType.ts): isTypeMatch     *)
(* JavaScript objects are modelled by string ids into tables; `undefined`  *)
(* is the string "undefined".  Array indices are 1-based here (0-based in  *)
(* the source).  checkType.ts reads DeducedType.symbolType where           *)
(* symbolic.ts declares DeducedType.symbol: both name the same field,      *)
(* called `symbol` below.                                                  *)
(***************************************************************************)
EXTENDS Integers, Sequences, FiniteSets, TLC

VARIABLES
    symbolMap,       \* scope id -> Map<string, symbol id>   (SymbolScope.symbolMap)
    nextOverload,    \* function symbol id -> symbol id | undefined
    diagnostic,      \* the diagnostic sink: sequence of reported errors
    referencedList,  \* scope id -> sequence of ReferencedSymbolInfo
    accepted,        \* history: scope id -> identifier -> symbols inserted with success, in order
    last,            \* history: the last operation, its inputs and its result
    unbound,         \* declarations the binder has not yet inserted
    query,           \* the expression the checking pass is looking at
    calls            \* number of checkFunctionMatch calls made

vars == <<symbolMap, nextOverload, diagnostic, referencedList, accepted,
          last, unbound, query, calls>>

Undefined == "undefined"

\* Range of a sequence.
Range(s) == {s[i] : i \in DOMAIN s}

(***************************************************************************)
(* Bounds of the model.                                                    *)
(***************************************************************************)
\* Longest argument list a call supplies.
MaxArgs == 3
\* Number of checkFunctionMatch calls in one behaviour (caps the append-only logs).
MaxCalls == 1

(***************************************************************************)
(* enum SymbolKind, enum PrimitiveType, isSourcePrimitiveType              *)
(***************************************************************************)
SymbolKind == {"Type", "Function", "Variable"}

PrimitiveType == {"Template", "String", "Bool", "Number", "Void", "Any", "Auto"}

\* typeof type === 'string': class and enum nodes are objects.
isSourcePrimitiveType(type) == type \in PrimitiveType

(***************************************************************************)
(* Tokens (ParsingToken): identity is the token id, text is TokenText.     *)
(* Two class declarations are both spelled Foo; one class is spelled       *)
(* String.                                                                 *)
(***************************************************************************)
TokenText ==
    [tk_int |-> "int", tk_float |-> "float", tk_bool |-> "bool",
     tk_string |-> "string", tk_void |-> "void", tk_any |-> "?",
     tk_auto |-> "auto", tk_T |-> "T",
     tk_A |-> "A", tk_B |-> "B", tk_C |-> "C",
     tk_Foo1 |-> "Foo", tk_Foo2 |-> "Foo", tk_P |-> "P", tk_R |-> "R",
     tk_E |-> "E", tk_StringCls |-> "String",
     tk_cP_int |-> "P", tk_cP_str |-> "P", tk_cP_2 |-> "P",
     tk_cFoo |-> "Foo", tk_cA |-> "A", tk_cR |-> "R",
     tk_f1 |-> "f", tk_f2 |-> "f", tk_f3 |-> "f", tk_g1 |-> "g",
     tk_v1 |-> "v", tk_v2 |-> "v", tk_fv |-> "v", tk_vf |-> "f",
     tk_fE |-> "E",
     tk_call |-> "callee", tk_ctype |-> "ctype"]

(***************************************************************************)
(* AST nodes: class / enum declarations (SourceType), function             *)
(* declarations (SymbolicFunction.sourceNode, with paramList), owner nodes *)
(* of scopes, and the two call nodes.                                      *)
(***************************************************************************)
Param(id, hasDefault) == [identifier |-> id, defaultExpr |-> hasDefault]

Node ==
    [node_A |-> [nodeName |-> "Class", identifier |-> "tk_A"],
     node_B |-> [nodeName |-> "Class", identifier |-> "tk_B"],
     node_C |-> [nodeName |-> "Class", identifier |-> "tk_C"],
     node_Foo1 |-> [nodeName |-> "Class", identifier |-> "tk_Foo1"],
     node_Foo2 |-> [nodeName |-> "Class", identifier |-> "tk_Foo2"],
     node_P |-> [nodeName |-> "Class", identifier |-> "tk_P"],
     node_R |-> [nodeName |-> "Class", identifier |-> "tk_R"],
     node_StringCls |-> [nodeName |-> "Class", identifier |-> "tk_StringCls"],
     node_E |-> [nodeName |-> "Enum", identifier |-> "tk_E"],
     node_funcR |-> [nodeName |-> "Func", identifier |-> "tk_R"],
     node_cP_int |-> [nodeName |-> "Func", paramList |-> <<Param("x", FALSE)>>],
     node_cP_str |-> [nodeName |-> "Func", paramList |-> <<Param("x", FALSE)>>],
     node_cP_2 |-> [nodeName |-> "Func",
                    paramList |-> <<Param("x", FALSE), Param("y", FALSE)>>],
     node_cFoo |-> [nodeName |-> "Func", paramList |-> <<Param("x", FALSE)>>],
     node_cA |-> [nodeName |-> "Func", paramList |-> <<Param("x", FALSE)>>],
     node_cR |-> [nodeName |-> "Func", paramList |-> <<Param("x", FALSE)>>],
     node_f1 |-> [nodeName |-> "Func", paramList |-> <<Param("a", FALSE)>>],
     node_f2 |-> [nodeName |-> "Func",
                  paramList |-> <<Param("a", FALSE), Param("b", FALSE)>>],
     node_f3 |-> [nodeName |-> "Func",
                  paramList |-> <<Param("a", FALSE), Param("b", FALSE),
                                  Param("c", TRUE)>>],
     node_g1 |-> [nodeName |-> "Func",
                  paramList |-> <<Param("a", FALSE), Param("b", FALSE),
                                  Param("required_c", FALSE),
                                  Param("d_with_default", TRUE)>>],
     node_fv |-> [nodeName |-> "Func", paramList |-> <<>>],
     node_fE |-> [nodeName |-> "Func", paramList |-> <<>>],
     node_call |-> [nodeName |-> "FuncCall", identifier |-> "tk_call"],
     node_construct |-> [nodeName |-> "ConstructCall",
                         typeIdentifier |-> "tk_ctype"]]

(***************************************************************************)
(* Symbols (SymbolicType, SymbolicFunction, SymbolicVariable).             *)
(* baseList is optional: baseListDefined says whether it is present.       *)
(***************************************************************************)
createBuiltinType(virtualToken, name) ==
    [symbolKind |-> "Type", declaredPlace |-> virtualToken, sourceType |-> name,
     baseListDefined |-> FALSE, baseList |-> <<>>]

UserType(token, node, hasBases, bases) ==
    [symbolKind |-> "Type", declaredPlace |-> token, sourceType |-> node,
     baseListDefined |-> hasBases, baseList |-> bases]

Function(token, node, ret, params) ==
    [symbolKind |-> "Function", declaredPlace |-> token, sourceNode |-> node,
     returnType |-> ret, parameterTypes |-> params]

Variable(token, type) ==
    [symbolKind |-> "Variable", declaredPlace |-> token, type |-> type]

Symbol ==
    [int |-> createBuiltinType("tk_int", "Number"),
     float |-> createBuiltinType("tk_float", "Number"),
     bool |-> createBuiltinType("tk_bool", "Bool"),
     string |-> createBuiltinType("tk_string", "String"),
     void |-> createBuiltinType("tk_void", "Void"),
     any |-> createBuiltinType("tk_any", "Any"),
     auto |-> createBuiltinType("tk_auto", "Auto"),
     T |-> createBuiltinType("tk_T", "Template"),
     A |-> UserType("tk_A", "node_A", FALSE, <<>>),
     B |-> UserType("tk_B", "node_B", TRUE, <<"dA">>),
     C |-> UserType("tk_C", "node_C", TRUE, <<"dB">>),
     Foo1 |-> UserType("tk_Foo1", "node_Foo1", FALSE, <<>>),
     Foo2 |-> UserType("tk_Foo2", "node_Foo2", TRUE, <<Undefined>>),
     P |-> UserType("tk_P", "node_P", FALSE, <<>>),
     R |-> UserType("tk_R", "node_R", FALSE, <<>>),
     E |-> UserType("tk_E", "node_E", FALSE, <<>>),
     StringCls |-> UserType("tk_StringCls", "node_StringCls", FALSE, <<>>),
     cP_int |-> Function("tk_cP_int", "node_cP_int", "dP", <<"dInt">>),
     cP_str |-> Function("tk_cP_str", "node_cP_str", "dP", <<"dString">>),
     cP_2 |-> Function("tk_cP_2", "node_cP_2", "dP", <<"dInt", "dInt">>),
     cFoo |-> Function("tk_cFoo", "node_cFoo", "dFoo1", <<"dFoo2">>),
     cA |-> Function("tk_cA", "node_cA", "dA", <<"dC">>),
     cR |-> Function("tk_cR", "node_cR", "dR", <<"dInt">>),
     f1 |-> Function("tk_f1", "node_f1", "dInt", <<"dInt">>),
     f2 |-> Function("tk_f2", "node_f2", "dBool", <<"dInt", "dInt">>),
     f3 |-> Function("tk_f3", "node_f3", "dString", <<"dInt", "dInt", Undefined>>),
     g1 |-> Function("tk_g1", "node_g1", Undefined, <<"dInt", "dT", "dBool", "dInt">>),
     fv |-> Function("tk_fv", "node_fv", "dVoid", <<>>),
     fE |-> Function("tk_fE", "node_fE", "dVoid", <<>>),
     v1 |-> Variable("tk_v1", "dInt"),
     v2 |-> Variable("tk_v2", "dInt"),
     vf |-> Variable("tk_vf", "dBool")]

SymbolIds == DOMAIN Symbol

FunctionIds == {s \in SymbolIds : Symbol[s].symbolKind = "Function"}

(***************************************************************************)
(* TemplateTranslation: Map<ParsingToken, DeducedType | undefined>.        *)
(***************************************************************************)
TemplateTranslation ==
    [tt_T_int |-> [tk_T |-> "dInt"],
     tt_T_undef |-> [tk_T |-> Undefined],
     tt_T_P |-> [tk_T |-> "dP"],
     tt_T_H |-> [tk_T |-> "dH_cP_int"]]

(***************************************************************************)
(* DeducedType: {symbol, sourceScope, templateTranslate?}.                 *)
(***************************************************************************)
Deduced(sym, scope, tt) ==
    [symbol |-> sym, sourceScope |-> scope, templateTranslate |-> tt]

DeducedType ==
    [dInt |-> Deduced("int", Undefined, Undefined),
     dFloat |-> Deduced("float", Undefined, Undefined),
     dBool |-> Deduced("bool", Undefined, Undefined),
     dString |-> Deduced("string", Undefined, Undefined),
     dVoid |-> Deduced("void", Undefined, Undefined),
     dAny |-> Deduced("any", Undefined, Undefined),
     dAuto |-> Deduced("auto", Undefined, Undefined),
     dT |-> Deduced("T", Undefined, Undefined),
     dT_int |-> Deduced("T", Undefined, "tt_T_int"),
     dT_undef |-> Deduced("T", Undefined, "tt_T_undef"),
     dT_P |-> Deduced("T", Undefined, "tt_T_P"),
     dT_H |-> Deduced("T", Undefined, "tt_T_H"),
     dA |-> Deduced("A", "global", Undefined),
     dB |-> Deduced("B", "global", Undefined),
     dC |-> Deduced("C", "global", "tt_T_int"),
     dFoo1 |-> Deduced("Foo1", "global", Undefined),
     dFoo2 |-> Deduced("Foo2", "sc_ns", Undefined),
     dP |-> Deduced("P", "global", Undefined),
     dP_noScope |-> Deduced("P", Undefined, Undefined),
     dR |-> Deduced("R", "global", Undefined),
     dE |-> Deduced("E", "global", Undefined),
     dStringCls |-> Deduced("StringCls", "global", Undefined),
     dH_cP_int |-> Deduced("cP_int", "sc_P", Undefined),
     dH_cP_str |-> Deduced("cP_str", "sc_P", Undefined)]

DeducedIds == DOMAIN DeducedType

(***************************************************************************)
(* Scopes (SymbolScope): the tree is fixed; symbolMap and referencedList   *)
(* are the mutable parts.                                                  *)
(***************************************************************************)
Scope ==
    [global |-> [ownerNode |-> Undefined, parentScope |-> Undefined,
                 childScopes |-> [P |-> "sc_P", Foo |-> "sc_Foo1", A |-> "sc_A",
                                  R |-> "sc_R", ns |-> "sc_ns"]],
     sc_ns |-> [ownerNode |-> Undefined, parentScope |-> "global",
                childScopes |-> [Foo |-> "sc_Foo2"]],
     sc_P |-> [ownerNode |-> "node_P", parentScope |-> "global",
               childScopes |-> <<>>],
     sc_Foo1 |-> [ownerNode |-> "node_Foo1", parentScope |-> "global",
                  childScopes |-> <<>>],
     sc_Foo2 |-> [ownerNode |-> "node_Foo2", parentScope |-> "sc_ns",
                  childScopes |-> <<>>],
     sc_A |-> [ownerNode |-> "node_A", parentScope |-> "global",
               childScopes |-> <<>>],
     sc_R |-> [ownerNode |-> "node_funcR", parentScope |-> "global",
               childScopes |-> <<>>]]

ScopeIds == DOMAIN Scope

\* scope.ts is not among the sources: a shallow lookup of a child scope by name.
findScopeShallowly(scope, identifier) ==
    IF identifier \in DOMAIN Scope[scope].childScopes
    THEN Scope[scope].childScopes[identifier]
    ELSE Undefined

\* scope.symbolMap.get(identifier)
findSymbolShallowly(scope, identifier) ==
    IF identifier \in DOMAIN symbolMap[scope]
    THEN symbolMap[scope][identifier]
    ELSE Undefined

(***************************************************************************)
(* resolveTemplateType (symbolic.ts): one non-recursive substitution step. *)
(***************************************************************************)
resolveTemplateType(templateTranslate, arg) ==
    IF arg # Undefined
       /\ Symbol[DeducedType[arg].symbol].declaredPlace
              \in DOMAIN TemplateTranslation[templateTranslate]
    THEN TemplateTranslation[templateTranslate]
             [Symbol[DeducedType[arg].symbol].declaredPlace]
    ELSE arg

(***************************************************************************)
(* checkType.ts: the type compatibility engine.                            *)
(***************************************************************************)
\* Mutant of canConstructBy: only the first overload is looked at.
canConstructByHeadOnly(constructor, srcType) ==
    LET parameterTypes == Symbol[constructor].parameterTypes
        paramType == parameterTypes[1]
    IN  /\ Len(parameterTypes) = 1
        /\ paramType # Undefined
        /\ Symbol[DeducedType[paramType].symbol].symbolKind = "Type"
        /\ Symbol[DeducedType[paramType].symbol].sourceType = srcType

RECURSIVE canConstructBy(_, _)
\* OK if some overload of the chain has one parameter whose sourceType is srcType.
canConstructBy(constructor, srcType) ==
    LET parameterTypes == Symbol[constructor].parameterTypes
        paramType == parameterTypes[1]
    IN  IF /\ Len(parameterTypes) = 1
           /\ paramType # Undefined
           /\ Symbol[DeducedType[paramType].symbol].symbolKind = "Type"
           /\ Symbol[DeducedType[paramType].symbol].sourceType = srcType
        THEN TRUE
        ELSE IF nextOverload[constructor] # Undefined
             THEN canConstructBy(nextOverload[constructor], srcType)
             ELSE FALSE

canConstructImplicitly(srcType, destScope, destIdentifier) ==
    IF destScope = Undefined THEN FALSE
    ELSE LET constructorScope == findScopeShallowly(destScope, destIdentifier)
         IN  IF constructorScope = Undefined THEN FALSE
             ELSE IF Scope[constructorScope].ownerNode = Undefined THEN FALSE
             ELSE IF Node[Scope[constructorScope].ownerNode].nodeName # "Class"
                  THEN FALSE
             ELSE LET constructor ==
                          findSymbolShallowly(constructorScope, destIdentifier)
                  IN  IF constructor = Undefined THEN FALSE
                      ELSE IF Symbol[constructor].symbolKind # "Function" THEN FALSE
                      ELSE canConstructBy(constructor, Symbol[srcType].sourceType)

\* Mutant of canCastFromPrimitiveType: an Any source only matches Any.
canCastFromPrimitiveTypeAnyStrict(srcType, destType) ==
    LET srcNode == Symbol[srcType].sourceType
        destNode == Symbol[destType].sourceType
    IN  CASE srcNode = "Template" ->
                 /\ destNode = "Template"
                 /\ Symbol[srcType].declaredPlace = Symbol[destType].declaredPlace
          [] srcNode = "String" ->
                 LET destName == TokenText[Symbol[destType].declaredPlace]
                 IN  destName = "string" \/ destName = "String"
          [] srcNode = "Void" -> FALSE
          [] srcNode = "Number" -> destNode = "Number"
          [] srcNode = "Bool" -> destNode = "Bool"
          [] srcNode = "Any" -> destNode = "Any"
          [] srcNode = "Auto" -> TRUE

\* Mutant of canCastFromPrimitiveType: the Number case falls through to Bool.
canCastFromPrimitiveTypeNumberToBool(srcType, destType) ==
    LET srcNode == Symbol[srcType].sourceType
        destNode == Symbol[destType].sourceType
    IN  CASE srcNode = "Template" ->
                 /\ destNode = "Template"
                 /\ Symbol[srcType].declaredPlace = Symbol[destType].declaredPlace
          [] srcNode = "String" ->
                 LET destName == TokenText[Symbol[destType].declaredPlace]
                 IN  destName = "string" \/ destName = "String"
          [] srcNode = "Void" -> FALSE
          [] srcNode = "Number" -> destNode = "Number" \/ destNode = "Bool"
          [] srcNode = "Bool" -> destNode = "Bool"
          [] srcNode = "Any" -> TRUE
          [] srcNode = "Auto" -> TRUE

canCastFromPrimitiveType(srcType, destType) ==
    LET srcNode == Symbol[srcType].sourceType
        destNode == Symbol[destType].sourceType
    IN  CASE srcNode = "Template" ->
                 /\ destNode = "Template"
                 /\ Symbol[srcType].declaredPlace = Symbol[destType].declaredPlace
          [] srcNode = "String" ->
                 LET destName == TokenText[Symbol[destType].declaredPlace]
                 IN  destName = "string" \/ destName = "String"
          [] srcNode = "Void" -> FALSE
          [] srcNode = "Number" -> destNode = "Number"
          [] srcNode = "Bool" -> destNode = "Bool"
          [] srcNode = "Any" -> TRUE
          [] srcNode = "Auto" -> TRUE

RECURSIVE InheritsFrom(_, _)
\* Some base, or base of a base, of srcType is destType.
InheritsFrom(srcType, destType) ==
    /\ Symbol[srcType].baseListDefined
    /\ \E i \in DOMAIN Symbol[srcType].baseList :
           LET srcBase == Symbol[srcType].baseList[i]
           IN  /\ srcBase # Undefined
               /\ \/ DeducedType[srcBase].symbol = destType
                  \/ InheritsFrom(DeducedType[srcBase].symbol, destType)

\* Mutant of canCastStatically: the base lists are walked transitively.
canCastStaticallyTransitive(srcNode, destNode, srcType, destType) ==
    /\ Node[srcNode].nodeName = "Class" \/ Node[srcNode].nodeName = "Interface"
    /\ InheritsFrom(srcType, destType)

canCastStatically(srcNode, destNode, srcType, destType) ==
    IF Node[srcNode].nodeName = "Class" \/ Node[srcNode].nodeName = "Interface"
    THEN IF ~Symbol[srcType].baseListDefined THEN FALSE
         ELSE \E i \in DOMAIN Symbol[srcType].baseList :
                  LET srcBase == Symbol[srcType].baseList[i]
                  IN  srcBase # Undefined /\ DeducedType[srcBase].symbol = destType
    ELSE FALSE

\* Mutant of SameDeclaredPlace: the tokens' texts are compared.
SameDeclaredText(srcType, destType) ==
    TokenText[Symbol[srcType].declaredPlace]
        = TokenText[Symbol[destType].declaredPlace]

\* `srcType.declaredPlace === destType.declaredPlace`: token identity.
SameDeclaredPlace(srcType, destType) ==
    Symbol[srcType].declaredPlace = Symbol[destType].declaredPlace

RECURSIVE isTypeMatch(_, _)
RECURSIVE isTypeMatchInternal(_, _)
RECURSIVE isFunctionHandlerMatch(_, _)

isFunctionHandlerMatch(srcType, destType) ==
    IF Symbol[destType].symbolKind # "Function" THEN FALSE
    ELSE IF ~isTypeMatch(Symbol[srcType].returnType, Symbol[destType].returnType)
         THEN FALSE
    ELSE IF Len(Symbol[srcType].parameterTypes)
                # Len(Symbol[destType].parameterTypes)
         THEN FALSE
    ELSE \A i \in DOMAIN Symbol[srcType].parameterTypes :
             isTypeMatch(Symbol[srcType].parameterTypes[i],
                         Symbol[destType].parameterTypes[i])

isTypeMatchInternal(src, dest) ==
    LET srcType == DeducedType[src].symbol
        destType == DeducedType[dest].symbol
    IN  IF Symbol[srcType].symbolKind = "Function"
        THEN isFunctionHandlerMatch(srcType, destType)
        ELSE IF Symbol[destType].symbolKind = "Function" THEN FALSE
        ELSE
          LET srcNode == Symbol[srcType].sourceType
              destNode == Symbol[destType].sourceType
          IN  IF destNode = "Any" \/ destNode = "Auto" THEN TRUE
              ELSE IF IF isSourcePrimitiveType(srcNode)
                      THEN canCastFromPrimitiveType(srcType, destType)
                      ELSE \/ SameDeclaredPlace(srcType, destType)
                           \/ canCastStatically(srcNode, destNode,
                                                srcType, destType)
                   THEN TRUE
              ELSE IF isSourcePrimitiveType(destNode) THEN FALSE
              ELSE IF Node[destNode].nodeName # "Class" THEN FALSE
              ELSE canConstructImplicitly(
                       srcType, DeducedType[dest].sourceScope,
                       TokenText[Node[destNode].identifier])

isTypeMatch(src, dest) ==
    IF src = Undefined \/ dest = Undefined THEN TRUE
    ELSE
      LET resolvedSrc ==
              IF DeducedType[src].templateTranslate # Undefined
              THEN resolveTemplateType(DeducedType[src].templateTranslate, src)
              ELSE src
          resolvedDest ==
              IF DeducedType[dest].templateTranslate # Undefined
              THEN resolveTemplateType(DeducedType[dest].templateTranslate, dest)
              ELSE dest
      IN  IF resolvedSrc = Undefined \/ resolvedDest = Undefined THEN TRUE
          ELSE isTypeMatchInternal(resolvedSrc, resolvedDest)

(***************************************************************************)
(* insertSymbolicObject (symbolic.ts).  The map is symbolMap[scope].       *)
(***************************************************************************)
DuplicateSymbol(symbol) ==
    [kind |-> "DuplicateSymbol", at |-> Symbol[symbol].declaredPlace,
     a |-> TokenText[Symbol[symbol].declaredPlace], b |-> "", n |-> 0, m |-> 0]

\* Mutant of ChainTail: the cursor is never advanced.
ChainTailStuckAtHead(cursor) == cursor

RECURSIVE ChainTail(_)
\* The cursor loop: walk nextOverload to the symbol whose nextOverload is undefined.
ChainTail(cursor) ==
    IF nextOverload[cursor] = Undefined THEN cursor
    ELSE ChainTail(nextOverload[cursor])

\* Mutant of insertSymbolicObject: any two symbols of one kind may overload.
insertSymbolicObjectSameKind(map, symbol) ==
    LET identifier == TokenText[Symbol[symbol].declaredPlace]
        hit == IF identifier \in DOMAIN map THEN map[identifier] ELSE Undefined
    IN  IF hit = Undefined
        THEN [ok |-> TRUE, map |-> (identifier :> symbol) @@ map,
              next |-> nextOverload, diags |-> <<>>]
        ELSE IF Symbol[symbol].symbolKind # Symbol[hit].symbolKind
             THEN [ok |-> FALSE, map |-> map, next |-> nextOverload,
                   diags |-> <<DuplicateSymbol(symbol)>>]
             ELSE [ok |-> TRUE, map |-> map,
                   next |-> IF hit \in DOMAIN nextOverload
                            THEN [nextOverload EXCEPT ![ChainTail(hit)] = symbol]
                            ELSE nextOverload,
                   diags |-> <<>>]

\* The three outcomes of an insertion, as [ok, map, next, diags].
insertSymbolicObject(map, symbol) ==
    LET identifier == TokenText[Symbol[symbol].declaredPlace]
        hit == IF identifier \in DOMAIN map THEN map[identifier] ELSE Undefined
    IN  IF hit = Undefined
        THEN [ok |-> TRUE, map |-> (identifier :> symbol) @@ map,
              next |-> nextOverload, diags |-> <<>>]
        ELSE LET canOverload == /\ Symbol[symbol].symbolKind = "Function"
                                /\ Symbol[hit].symbolKind = "Function"
             IN  IF ~canOverload
                 THEN [ok |-> FALSE, map |-> map, next |-> nextOverload,
                       diags |-> <<DuplicateSymbol(symbol)>>]
                 ELSE [ok |-> TRUE, map |-> map,
                       next |-> [nextOverload EXCEPT ![ChainTail(hit)] = symbol],
                       diags |-> <<>>]

(***************************************************************************)
(* checkFunction.ts: the overload resolver.  A call is                     *)
(* [callerNode, callerArgs, templateTranslator]; the effects on the        *)
(* diagnostic sink and on scope.referencedList are threaded through `out`  *)
(* as [diags, refs], in the order the code produces them.                  *)
(***************************************************************************)
getIdentifierInFuncOrConstructor(funcCall) ==
    IF Node[funcCall].nodeName = "FuncCall"
    THEN Node[funcCall].identifier
    ELSE Node[funcCall].typeIdentifier

pushReferenceOfFuncOrConstructor(out, callerNode, calleeFunc) ==
    [out EXCEPT !.refs =
         Append(@, [declaredSymbol |-> calleeFunc,
                    referencedToken |->
                        getIdentifierInFuncOrConstructor(callerNode)])]

ArityMismatch(callerNode, declared, supplied) ==
    [kind |-> "ArityMismatch", at |-> callerNode, a |-> "", b |-> "",
     n |-> declared, m |-> supplied]

MissingArgument(callerNode, param) ==
    [kind |-> "MissingArgument", at |-> callerNode, a |-> param.identifier,
     b |-> "", n |-> 0, m |-> 0]

\* The location is that of argument i of the call.
TypeConversionError(callerNode, i, actualType, expectedType) ==
    [kind |-> "TypeConversionError", at |-> callerNode,
     a |-> TokenText[Symbol[DeducedType[actualType].symbol].declaredPlace],
     b |-> TokenText[Symbol[DeducedType[expectedType].symbol].declaredPlace],
     n |-> i, m |-> 0]

addError(out, d) == [out EXCEPT !.diags = Append(@, d)]

\* `return calleeFunc.returnType` after the reference edge is pushed.
Accept(out, args, calleeFunc) ==
    [out |-> pushReferenceOfFuncOrConstructor(out, args.callerNode, calleeFunc),
     ret |-> Symbol[calleeFunc].returnType]

\* Mutant of ArgumentMissing: `i > callerArgs.length`.
ArgumentMissingOffByOne(i, callerArgs) == i > Len(callerArgs) + 1

\* `i >= callerArgs.length` (0-based i): parameter i has no argument.
ArgumentMissing(i, callerArgs) == i > Len(callerArgs)

\* Mutant of Break: `return` instead of `break`, skipping the reference edge.
BreakReturnsEarly(out, args, calleeFunc) == [out |-> out, ret |-> Undefined]

\* `break` out of the parameter loop: the statements after the loop still run.
Break(out, args, calleeFunc) == Accept(out, args, calleeFunc)

RECURSIVE checkFunctionMatch(_, _, _)
RECURSIVE ParamLoop(_, _, _, _)
RECURSIVE handleTooMuchCallerArgs(_, _, _)

handleTooMuchCallerArgs(out, args, calleeFunc) ==
    IF nextOverload[calleeFunc] # Undefined
    THEN checkFunctionMatch(out, args, nextOverload[calleeFunc])
    ELSE Accept(addError(out,
                    ArityMismatch(args.callerNode,
                        Len(Node[Symbol[calleeFunc].sourceNode].paramList),
                        Len(args.callerArgs))),
                args, calleeFunc)

\* Mutant of ParamLoop: a mismatch on the final overload ends the loop.
ParamLoopBreakOnMismatch(out, args, calleeFunc, i) ==
    LET calleeParams == Node[Symbol[calleeFunc].sourceNode].paramList
        callerArgs == args.callerArgs
        templateTranslator == args.templateTranslator
        param == calleeParams[i]
        rawActual == IF i <= Len(callerArgs) THEN callerArgs[i] ELSE Undefined
        rawExpected == Symbol[calleeFunc].parameterTypes[i]
        actualType == IF templateTranslator # Undefined
                      THEN resolveTemplateType(templateTranslator, rawActual)
                      ELSE rawActual
        expectedType == IF templateTranslator # Undefined
                        THEN resolveTemplateType(templateTranslator, rawExpected)
                        ELSE rawExpected
    IN  IF i > Len(calleeParams) THEN Accept(out, args, calleeFunc)
        ELSE IF ArgumentMissing(i, callerArgs) /\ ~param.defaultExpr
        THEN IF nextOverload[calleeFunc] # Undefined
             THEN checkFunctionMatch(out, args, nextOverload[calleeFunc])
             ELSE Break(addError(out, MissingArgument(args.callerNode, param)),
                        args, calleeFunc)
        ELSE IF actualType = Undefined \/ expectedType = Undefined
        THEN ParamLoop(out, args, calleeFunc, i + 1)
        ELSE IF isTypeMatch(actualType, expectedType)
        THEN ParamLoop(out, args, calleeFunc, i + 1)
        ELSE IF nextOverload[calleeFunc] # Undefined
        THEN checkFunctionMatch(out, args, nextOverload[calleeFunc])
        ELSE Break(addError(out,
                       TypeConversionError(args.callerNode, i,
                                           actualType, expectedType)),
                   args, calleeFunc)

\* The body of `for (let i = 0; i < calleeParams.length; i++)` from index i on.
ParamLoop(out, args, calleeFunc, i) ==
    LET calleeParams == Node[Symbol[calleeFunc].sourceNode].paramList
        callerArgs == args.callerArgs
        templateTranslator == args.templateTranslator
        param == calleeParams[i]
        rawActual == IF i <= Len(callerArgs) THEN callerArgs[i] ELSE Undefined
        rawExpected == Symbol[calleeFunc].parameterTypes[i]
        actualType == IF templateTranslator # Undefined
                      THEN resolveTemplateType(templateTranslator, rawActual)
                      ELSE rawActual
        expectedType == IF templateTranslator # Undefined
                        THEN resolveTemplateType(templateTranslator, rawExpected)
                        ELSE rawExpected
    IN  IF i > Len(calleeParams) THEN Accept(out, args, calleeFunc)
        ELSE IF ArgumentMissing(i, callerArgs) /\ ~param.defaultExpr
        THEN IF nextOverload[calleeFunc] # Undefined
             THEN checkFunctionMatch(out, args, nextOverload[calleeFunc])
             ELSE Break(addError(out, MissingArgument(args.callerNode, param)),
                        args, calleeFunc)
        ELSE IF actualType = Undefined \/ expectedType = Undefined
        THEN ParamLoop(out, args, calleeFunc, i + 1)
        ELSE IF isTypeMatch(actualType, expectedType)
        THEN ParamLoop(out, args, calleeFunc, i + 1)
        ELSE IF nextOverload[calleeFunc] # Undefined
        THEN checkFunctionMatch(out, args, nextOverload[calleeFunc])
        ELSE ParamLoop(addError(out,
                           TypeConversionError(args.callerNode, i,
                                               actualType, expectedType)),
                       args, calleeFunc, i + 1)

checkFunctionMatch(out, args, calleeFunc) ==
    IF Len(args.callerArgs)
           > Len(Node[Symbol[calleeFunc].sourceNode].paramList)
    THEN handleTooMuchCallerArgs(out, args, calleeFunc)
    ELSE ParamLoop(out, args, calleeFunc, 1)

(***************************************************************************)
(* The state machine.                                                      *)
(***************************************************************************)
\* The scope a declaration is bound in.
DeclScope(symbol) ==
    CASE symbol \in {"cP_int", "cP_str", "cP_2"} -> "sc_P"
      [] symbol = "cFoo" -> "sc_Foo1"
      [] symbol = "cA" -> "sc_A"
      [] symbol = "cR" -> "sc_R"
      [] OTHER -> "global"

\* Declarations of the three analysed programs.
BindDecls == {"f1", "f2", "f3", "v1", "v2", "fv", "vf", "fE"}
TypeDecls == {"cP_int", "cP_str", "cP_2", "cFoo", "cA"}
CallDecls == {"f1", "f2", "f3", "g1"}

\* Inputs of checkFunctionMatch: the call site, the name the callee is looked
\* up by, the deduced argument types and the template translation.
ArgTypes == {Undefined, "dInt", "dBool"}
CallerArgs == UNION {[1..n -> ArgTypes] : n \in 0..MaxArgs}
CallSites == {[scope |-> "global", callerNode |-> "node_call"],
              [scope |-> "sc_ns", callerNode |-> "node_construct"]}
Callees == {[scope |-> "global", identifier |-> "f"],
            [scope |-> "global", identifier |-> "g"]}
Translators == {Undefined, "tt_T_int"}

\* Class declarations are hoisted into their scopes before anything else, and
\* so is the function R(x: int) whose scope shares the name of class R.
InitBase ==
    /\ symbolMap =
           [s \in ScopeIds |->
               CASE s = "global" ->
                        [A |-> "A", B |-> "B", C |-> "C", Foo |-> "Foo1",
                         P |-> "P", R |-> "R", E |-> "E", String |-> "StringCls"]
                 [] s = "sc_ns" -> [Foo |-> "Foo2"]
                 [] s = "sc_R" -> [R |-> "cR"]
                 [] OTHER -> <<>>]
    /\ accepted =
           [s \in ScopeIds |->
               CASE s = "global" ->
                        [A |-> <<"A">>, B |-> <<"B">>, C |-> <<"C">>,
                         Foo |-> <<"Foo1">>, P |-> <<"P">>, R |-> <<"R">>,
                         E |-> <<"E">>, String |-> <<"StringCls">>]
                 [] s = "sc_ns" -> [Foo |-> <<"Foo2">>]
                 [] s = "sc_R" -> [R |-> <<"cR">>]
                 [] OTHER -> <<>>]
    /\ nextOverload = [f \in FunctionIds |-> Undefined]
    /\ diagnostic = <<>>
    /\ referencedList = [s \in ScopeIds |-> <<>>]
    /\ last = [op |-> "none"]
    /\ calls = 0

\* The binder inserts one declaration into its scope's symbolMap.
Insert(symbol) ==
    LET scope == DeclScope(symbol)
        identifier == TokenText[Symbol[symbol].declaredPlace]
        r == insertSymbolicObject(symbolMap[scope], symbol)
        before == IF identifier \in DOMAIN accepted[scope]
                  THEN accepted[scope][identifier] ELSE <<>>
    IN  /\ symbol \in unbound
        /\ unbound' = unbound \ {symbol}
        /\ symbolMap' = [symbolMap EXCEPT ![scope] = r.map]
        /\ nextOverload' = r.next
        /\ diagnostic' = diagnostic \o r.diags
        /\ accepted' =
               IF r.ok
               THEN [accepted EXCEPT ![scope] =
                        (identifier :> Append(before, symbol)) @@ @]
               ELSE accepted
        /\ last' = [op |-> "insertSymbolicObject", symbol |-> symbol,
                    scope |-> scope,
                    hit |-> findSymbolShallowly(scope, identifier),
                    ok |-> r.ok, diags |-> r.diags]
        /\ UNCHANGED <<referencedList, query, calls>>

\* The checking pass asks whether query.src can be used where query.dest is
\* expected.
IsTypeMatch ==
    /\ last' = [op |-> "isTypeMatch", src |-> query.src, dest |-> query.dest,
                result |-> isTypeMatch(query.src, query.dest)]
    /\ UNCHANGED <<symbolMap, nextOverload, diagnostic, referencedList,
                   accepted, unbound, query, calls>>

\* The checking pass looks the callee up by name and resolves the call against
\* the chain that starts there.
CheckFunctionMatch ==
    LET calleeFunc ==
            findSymbolShallowly(query.callee.scope, query.callee.identifier)
        args == [callerNode |-> query.site.callerNode,
                 callerArgs |-> query.callerArgs,
                 templateTranslator |-> query.templateTranslator]
        r == checkFunctionMatch([diags |-> <<>>, refs |-> <<>>], args, calleeFunc)
    IN  /\ calls < MaxCalls
        /\ calleeFunc # Undefined
        /\ Symbol[calleeFunc].symbolKind = "Function"
        /\ calls' = calls + 1
        /\ diagnostic' = diagnostic \o r.out.diags
        /\ referencedList' =
               [referencedList EXCEPT ![query.site.scope] = @ \o r.out.refs]
        /\ last' = [op |-> "checkFunctionMatch", calleeFunc |-> calleeFunc,
                    ret |-> r.ret, diags |-> r.out.diags, refs |-> r.out.refs,
                    referencedBefore |-> referencedList,
                    diagnosticBefore |-> diagnostic]
        /\ UNCHANGED <<symbolMap, nextOverload, accepted, unbound, query>>

NoQuery == [kind |-> "none"]

InitBind == InitBase /\ unbound = BindDecls /\ query = NoQuery

InitType ==
    /\ InitBase
    /\ unbound = TypeDecls
    /\ \E src \in DeducedIds \cup {Undefined},
          dest \in DeducedIds \cup {Undefined} :
           query = [kind |-> "typeMatch", src |-> src, dest |-> dest]

InitCall ==
    /\ InitBase
    /\ unbound = CallDecls
    /\ \E site \in CallSites, callee \in Callees, callerArgs \in CallerArgs,
          templateTranslator \in Translators :
           query = [kind |-> "call", site |-> site, callee |-> callee,
                    callerArgs |-> callerArgs,
                    templateTranslator |-> templateTranslator]

NextBind == \E symbol \in SymbolIds : Insert(symbol)

NextType ==
    \/ \E symbol \in SymbolIds : Insert(symbol)
    \/ IsTypeMatch

NextCall ==
    \/ \E symbol \in SymbolIds : Insert(symbol)
    \/ CheckFunctionMatch

SpecBind == InitBind /\ [][NextBind]_vars
SpecType == InitType /\ [][NextType]_vars
SpecCall == InitCall /\ [][NextCall]_vars

(***************************************************************************)
(* Vocabulary of the properties of the overload resolver.                  *)
(***************************************************************************)
IsCall == last.op = "checkFunctionMatch"

\* The overloads of the looked-up name, in the order they were inserted.
InsertionOrder == accepted[query.callee.scope][query.callee.identifier]

ParamsOf(o) == Node[Symbol[o].sourceNode].paramList

Translated(d) ==
    IF query.templateTranslator # Undefined
    THEN resolveTemplateType(query.templateTranslator, d)
    ELSE d

\* Supplied position i is unresolved or passes isTypeMatch against overload o.
PositionPasses(o, i) ==
    LET actual == Translated(query.callerArgs[i])
        expected == Translated(Symbol[o].parameterTypes[i])
    IN  actual = Undefined \/ expected = Undefined \/ isTypeMatch(actual, expected)

Applicable(o) ==
    /\ Len(query.callerArgs) <= Len(ParamsOf(o))
    /\ \A i \in DOMAIN ParamsOf(o) :
           i > Len(query.callerArgs) => ParamsOf(o)[i].defaultExpr
    /\ \A i \in DOMAIN query.callerArgs : PositionPasses(o, i)

\* The edge this call site records for overload o.
EdgeTo(o) ==
    [declaredSymbol |-> o,
     referencedToken |-> IF query.site.callerNode = "node_call"
                         THEN "tk_call" ELSE "tk_ctype"]

Reported(kind) == {k \in DOMAIN last.diags : last.diags[k].kind = kind}

\* C1: a call started at the head of a chain binds to the first overload, in
\* insertion order, that is applicable: it returns that overload's return
\* type, the one appended reference edge names it, and nothing is reported.
\* With f(a), f(a,b), f(a,b,c) inserted in that order a type-correct two
\* argument call binds to f(a,b), although f(a,b,c = default) applies too.
C1_FirstApplicableInInsertionOrder ==
    IsCall =>
        LET order == InsertionOrder
            applicable == {k \in DOMAIN order : Applicable(order[k])}
        IN  /\ last.calleeFunc = order[1]
            /\ applicable # {} =>
                   LET first == order[CHOOSE k \in applicable :
                                          \A j \in applicable : k <= j]
                   IN  /\ last.ret = Symbol[first].returnType
                       /\ referencedList[query.site.scope] =
                              Append(last.referencedBefore[query.site.scope],
                                     EdgeTo(first))
                       /\ last.diags = <<>>
                       /\ diagnostic = last.diagnosticBefore
            /\ (/\ order = <<"f1", "f2", "f3">>
                /\ Len(query.callerArgs) = 2
                /\ \A i \in 1..2 : PositionPasses("f2", i))
                   => last.refs = <<EdgeTo("f2")>>

C1_Witness ==
    /\ IsCall
    /\ InsertionOrder = <<"f1", "f2", "f3">>
    /\ query.callerArgs = <<"dInt", "dInt">>
    /\ last.refs = <<EdgeTo("f2")>>
    /\ last.ret = "dBool"
    /\ last.diags = <<>>

\* The call is to g(a, b, required_c, d_with_default), which has no overload.
IsCallOfG == IsCall /\ last.calleeFunc = "g1" /\ nextOverload["g1"] = Undefined

OneMissingArgumentForRequiredC ==
    /\ Cardinality(Reported("MissingArgument")) = 1
    /\ \A k \in Reported("MissingArgument") : last.diags[k].a = "required_c"
    /\ \A k \in DOMAIN last.diags :
           /\ last.diags[k].a # "d_with_default"
           /\ last.diags[k].kind = "TypeConversionError" => last.diags[k].n # 4

\* C2 as stated: the three-argument call g(a, b, c) reports exactly one
\* MissingArgument, for required_c, and nothing for d_with_default.
C2_ThreeArgumentCallReportsMissing ==
    (IsCallOfG /\ Len(query.callerArgs) = 3) => OneMissingArgumentForRequiredC

\* C2 amended: the two-argument call g(a, b) reports exactly one
\* MissingArgument, for required_c, and nothing for d_with_default.
C2_TwoArgumentCallReportsMissing ==
    (IsCallOfG /\ Len(query.callerArgs) = 2) => OneMissingArgumentForRequiredC

C2_Witness ==
    /\ IsCallOfG
    /\ Len(query.callerArgs) = 2
    /\ Cardinality(Reported("MissingArgument")) = 1
    /\ last.refs = <<EdgeTo("g1")>>

\* The overload the call ended on has no further overload.
EndedOnFinal ==
    /\ IsCall
    /\ Len(last.refs) = 1
    /\ nextOverload[last.refs[1].declaredSymbol] = Undefined

\* Supplied positions of the final overload whose types do not match.
Mismatched(o) ==
    {i \in DOMAIN query.callerArgs :
         i <= Len(Symbol[o].parameterTypes) /\ ~PositionPasses(o, i)}

ConversionErrorsAt(i) ==
    {k \in Reported("TypeConversionError") : last.diags[k].n = i}

\* C3 as stated: on an overload with no nextOverload every supplied position
\* whose type fails isTypeMatch gets one TypeConversionError.
C3_EveryMismatchReported ==
    EndedOnFinal =>
        \A i \in Mismatched(last.refs[1].declaredSymbol) :
            Cardinality(ConversionErrorsAt(i)) = 1

\* C3 amended: when the call supplies no more arguments than the final
\* overload declares parameters, every supplied position whose type fails
\* isTypeMatch gets exactly one TypeConversionError and no other position
\* gets one; two wrong-typed arguments yield exactly two.
C3_EveryMismatchReportedWithinArity ==
    (EndedOnFinal
     /\ Len(query.callerArgs) <= Len(ParamsOf(last.refs[1].declaredSymbol)))
        => LET o == last.refs[1].declaredSymbol
           IN  /\ \A i \in DOMAIN query.callerArgs :
                      Cardinality(ConversionErrorsAt(i)) =
                          IF i \in Mismatched(o) THEN 1 ELSE 0
               /\ Cardinality(Reported("TypeConversionError")) =
                      Cardinality(Mismatched(o))

C3_Witness ==
    /\ EndedOnFinal
    /\ last.refs[1].declaredSymbol = "g1"
    /\ Len(query.callerArgs) = 2
    /\ Mismatched("g1") = {1, 2}
    /\ Cardinality(Reported("TypeConversionError")) = 2

\* C10: every call appends exactly one entry to the referencedList of the
\* call's scope, naming an overload of the chain, with the call-site
\* identifier as referencedToken, and returns that overload's return type;
\* no other scope's list changes.
C10_OneReferenceEdgePerCall ==
    IsCall =>
        /\ Len(last.refs) = 1
        /\ \E o \in Range(InsertionOrder) :
               /\ referencedList[query.site.scope] =
                      Append(last.referencedBefore[query.site.scope], EdgeTo(o))
               /\ last.ret = Symbol[o].returnType
        /\ \A s \in ScopeIds \ {query.site.scope} :
               referencedList[s] = last.referencedBefore[s]

\* The missing-argument break on f(a,b,c), reached after skipping f(a), f(a,b).
C10_Witness ==
    /\ IsCall
    /\ InsertionOrder = <<"f2", "f1", "f3">>
    /\ query.callerArgs = <<>>
    /\ Cardinality(Reported("MissingArgument")) = 1
    /\ referencedList[query.site.scope] = <<EdgeTo("f3")>>
    /\ last.ret = "dString"

(***************************************************************************)
(* Vocabulary of the properties of the symbol table.                       *)
(***************************************************************************)
IsInsert == last.op = "insertSymbolicObject"

KindOfSymbol(symbol) == Symbol[symbol].symbolKind

RECURSIVE ChainFrom(_)
\* The symbols reached from a map entry through nextOverload.
ChainFrom(symbol) ==
    IF symbol \in DOMAIN nextOverload /\ nextOverload[symbol] # Undefined
    THEN <<symbol>> \o ChainFrom(nextOverload[symbol])
    ELSE <<symbol>>

\* Declarations spelled id that insertSymbolicObject was given and refused.
Refused(id) ==
    {d \in BindDecls \ unbound :
         /\ TokenText[Symbol[d].declaredPlace] = id
         /\ d \notin Range(accepted[DeclScope(d)][id])}

DuplicatesReported(id) ==
    {k \in DOMAIN diagnostic :
         diagnostic[k].kind = "DuplicateSymbol" /\ diagnostic[k].a = id}

\* C4: an insertion under an identifier that is already present fails with
\* exactly one DuplicateSymbol diagnostic unless the entry and the new symbol
\* are both Functions, and then it succeeds silently; an identifier has one
\* map entry, every definition accepted under it is on the chain of that
\* entry in insertion order, and a chain of several is all Functions.
C4_DuplicateUnlessBothFunctions ==
    /\ IsInsert =>
           LET id == TokenText[Symbol[last.symbol].declaredPlace]
               present == last.hit # Undefined
               bothFunctions == /\ KindOfSymbol(last.symbol) = "Function"
                                /\ KindOfSymbol(last.hit) = "Function"
           IN  /\ (~present \/ bothFunctions) =>
                      /\ last.ok
                      /\ last.diags = <<>>
                      /\ last.symbol \in Range(accepted[last.scope][id])
               /\ (present /\ ~bothFunctions) =>
                      /\ ~last.ok
                      /\ Len(last.diags) = 1
                      /\ last.diags[1].kind = "DuplicateSymbol"
                      /\ last.diags[1].a = id
                      /\ last.symbol \notin Range(accepted[last.scope][id])
    /\ \A s \in ScopeIds :
           /\ DOMAIN symbolMap[s] = DOMAIN accepted[s]
           /\ \A id \in DOMAIN accepted[s] :
                  /\ ChainFrom(symbolMap[s][id]) = accepted[s][id]
                  /\ Len(accepted[s][id]) > 1 =>
                         \A k \in DOMAIN accepted[s][id] :
                             KindOfSymbol(accepted[s][id][k]) = "Function"
    /\ \A id \in {TokenText[Symbol[d].declaredPlace] : d \in BindDecls \ unbound} :
           Cardinality(DuplicatesReported(id)) = Cardinality(Refused(id))
    /\ ({"v1", "v2"} \cap unbound = {} /\ "fv" \in unbound) =>
           Cardinality(DuplicatesReported("v")) = 1
    /\ ({"f1", "f2"} \cap unbound = {} /\ "vf" \in unbound) =>
           Cardinality(DuplicatesReported("f")) = 0

\* The second variable v is refused while two functions f form a chain.
C4_Witness ==
    /\ IsInsert
    /\ last.symbol = "v2"
    /\ last.hit = "v1"
    /\ ~last.ok
    /\ Cardinality(DuplicatesReported("v")) = 1
    /\ "f" \in DOMAIN accepted["global"]
    /\ accepted["global"]["f"] = <<"f2", "f1">>
    /\ Len(diagnostic) = 1

(***************************************************************************)
(* Vocabulary of the properties of the compatibility engine.               *)
(***************************************************************************)
IsMatch == last.op = "isTypeMatch"

\* A deduced type after the substitution isTypeMatch applies to it.
SelfResolved(d) ==
    IF d = Undefined THEN Undefined
    ELSE IF DeducedType[d].templateTranslate # Undefined
    THEN resolveTemplateType(DeducedType[d].templateTranslate, d)
    ELSE d

Src == SelfResolved(last.src)
Dest == SelfResolved(last.dest)

\* Neither side is absent, before or after self-resolution.
BothPresent == IsMatch /\ Src # Undefined /\ Dest # Undefined

KindOf(d) == Symbol[DeducedType[d].symbol].symbolKind

\* sourceType of the symbol: a primitive tag or a declaration node.
DeclaredType(d) ==
    IF KindOf(d) = "Type" THEN Symbol[DeducedType[d].symbol].sourceType
    ELSE "none"

DeclaredText(d) == TokenText[Symbol[DeducedType[d].symbol].declaredPlace]

IsClass(d) ==
    /\ KindOf(d) = "Type"
    /\ ~isSourcePrimitiveType(DeclaredType(d))
    /\ Node[DeclaredType(d)].nodeName = "Class"

\* Class d has, in the class-owned scope found under its name in its source
\* scope, a constructor overload with exactly one parameter of declared type
\* sourceType.  The overloads are those accepted by the insertions.
ImplicitlyConstructible(d, sourceType) ==
    /\ IsClass(d)
    /\ DeducedType[d].sourceScope # Undefined
    /\ LET name == DeclaredText(d)
           children == Scope[DeducedType[d].sourceScope].childScopes
       IN  /\ name \in DOMAIN children
           /\ Scope[children[name]].ownerNode # Undefined
           /\ Node[Scope[children[name]].ownerNode].nodeName = "Class"
           /\ name \in DOMAIN accepted[children[name]]
           /\ \E k \in DOMAIN accepted[children[name]][name] :
                  LET o == Symbol[accepted[children[name]][name][k]]
                  IN  /\ o.symbolKind = "Function"
                      /\ Len(o.parameterTypes) = 1
                      /\ o.parameterTypes[1] # Undefined
                      /\ DeclaredType(o.parameterTypes[1]) = sourceType

\* C5 as stated: a destination declared Any or Auto accepts every non-absent
\* source, and a source declared Any is accepted by every non-absent
\* destination, whatever the symbol kinds.
C5_AnyAutoWildcardForEveryKind ==
    (IsMatch /\ last.src # Undefined /\ last.dest # Undefined
     /\ (DeclaredType(last.dest) \in {"Any", "Auto"}
         \/ DeclaredType(last.src) = "Any"))
        => last.result

\* C5 amended: when, after self-resolution, both sides are present and
\* neither is a Function symbol, a destination declared Any or Auto accepts
\* the source and a source declared Any is accepted.
C5_AnyAutoWildcardForTypes ==
    (BothPresent /\ KindOf(Src) = "Type" /\ KindOf(Dest) = "Type"
     /\ (DeclaredType(Dest) \in {"Any", "Auto"} \/ DeclaredType(Src) = "Any"))
        => last.result

C5_Witness ==
    /\ IsMatch
    /\ last.src = "dAny"
    /\ last.dest = "dBool"
    /\ last.result

\* C6 as stated: a Number source matches exactly the Number destinations, a
\* Bool source exactly the Bool destinations, a String source exactly the
\* destinations spelled string or String.
C6_PrimitiveMatrixExact ==
    (IsMatch /\ last.src # Undefined /\ last.dest # Undefined) =>
        /\ DeclaredType(last.src) = "Number" =>
               (last.result <=> DeclaredType(last.dest) = "Number")
        /\ DeclaredType(last.src) = "Bool" =>
               (last.result <=> DeclaredType(last.dest) = "Bool")
        /\ DeclaredType(last.src) = "String" =>
               (last.result <=> DeclaredText(last.dest) \in {"string", "String"})

\* What a primitive source of the given tag is accepted by, besides its own row.
WildcardOrConstructible(d, tag) ==
    \/ DeclaredType(d) \in {"Any", "Auto"}
    \/ ImplicitlyConstructible(d, tag)

\* C6 amended: with both sides present after self-resolution, a Number source
\* matches exactly the destinations that are Type symbols declared Number,
\* Any or Auto or classes implicitly constructible from a Number; Bool
\* likewise; a String source exactly the Type symbols spelled string or
\* String, declared Any or Auto, or implicitly constructible from a String.
C6_PrimitiveMatrixWithWildcardsAndConstructors ==
    BothPresent =>
        /\ DeclaredType(Src) = "Number" =>
               (last.result <=>
                    /\ KindOf(Dest) = "Type"
                    /\ \/ DeclaredType(Dest) = "Number"
                       \/ WildcardOrConstructible(Dest, "Number"))
        /\ DeclaredType(Src) = "Bool" =>
               (last.result <=>
                    /\ KindOf(Dest) = "Type"
                    /\ \/ DeclaredType(Dest) = "Bool"
                       \/ WildcardOrConstructible(Dest, "Bool"))
        /\ DeclaredType(Src) = "String" =>
               (last.result <=>
                    /\ KindOf(Dest) = "Type"
                    /\ \/ DeclaredText(Dest) \in {"string", "String"}
                       \/ WildcardOrConstructible(Dest, "String"))

\* A Number is accepted by class P through the constructor P(x: int).
C6_Witness ==
    /\ IsMatch
    /\ last.src = "dInt"
    /\ last.dest = "dP"
    /\ last.result
    /\ "P" \in DOMAIN accepted["sc_P"]
    /\ "cP_int" \in Range(accepted["sc_P"]["P"])

\* Two class declarations with one spelling and different declaring tokens,
\* neither a base of the other.
SameNameDistinctClasses(a, b) ==
    /\ IsClass(a) /\ IsClass(b)
    /\ DeclaredText(a) = DeclaredText(b)
    /\ Symbol[DeducedType[a].symbol].declaredPlace
           # Symbol[DeducedType[b].symbol].declaredPlace
    /\ \A i \in DOMAIN Symbol[DeducedType[a].symbol].baseList :
           Symbol[DeducedType[a].symbol].baseList[i] = Undefined
    /\ \A i \in DOMAIN Symbol[DeducedType[b].symbol].baseList :
           Symbol[DeducedType[b].symbol].baseList[i] = Undefined

\* C7 as stated: two distinct class declarations of one name never match, in
\* either direction; a class type matches itself.
C7_SameNameClassesNeverMatch ==
    BothPresent =>
        /\ SameNameDistinctClasses(Src, Dest) => ~last.result
        /\ (IsClass(Src) /\ Src = Dest) => last.result

\* C7 amended: two distinct class declarations of one name do not match
\* unless the destination class is implicitly constructible from the source
\* class; a class type matches itself.
C7_SameNameClassesMatchOnlyByConstruction ==
    BothPresent =>
        /\ SameNameDistinctClasses(Src, Dest) =>
               (last.result <=>
                    ImplicitlyConstructible(Dest, DeclaredType(Src)))
        /\ (IsClass(Src) /\ Src = Dest) => last.result

C7_Witness ==
    /\ IsMatch
    /\ last.src = "dFoo1"
    /\ last.dest = "dFoo2"
    /\ ~last.result
    /\ "Foo" \in DOMAIN accepted["sc_Foo1"]

\* C8 as stated: B, which lists A as a base, matches A; C, which lists only
\* B, never matches A.
C8_SingleLevelInheritance ==
    IsMatch =>
        /\ (last.src = "dB" /\ last.dest = "dA") => last.result
        /\ (last.src = "dC" /\ last.dest = "dA") => ~last.result

\* C8 amended: B matches A; C matches A only when A is implicitly
\* constructible from C.
C8_SingleLevelInheritanceUnlessConstructible ==
    IsMatch =>
        /\ (last.src = "dB" /\ last.dest = "dA") => last.result
        /\ (last.src = "dC" /\ last.dest = "dA") =>
               (last.result <=> ImplicitlyConstructible("dA", "node_C"))

C8_Witness ==
    /\ IsMatch
    /\ last.src = "dC"
    /\ last.dest = "dA"
    /\ ~last.result
    /\ "dA" \in Range(Symbol["B"].baseList)
    /\ "dB" \in Range(Symbol["C"].baseList)

\* A rule of isTypeMatch that comes before implicit construction accepts.
EarlierRuleAccepts(s, d) ==
    /\ KindOf(s) = "Type"
    /\ IF isSourcePrimitiveType(DeclaredType(s))
       THEN canCastFromPrimitiveType(DeducedType[s].symbol, DeducedType[d].symbol)
       ELSE \/ SameDeclaredPlace(DeducedType[s].symbol, DeducedType[d].symbol)
            \/ canCastStatically(DeclaredType(s), DeclaredType(d),
                                 DeducedType[s].symbol, DeducedType[d].symbol)

\* C9: when the destination is a class and no earlier rule accepts, the
\* types match exactly when the class is implicitly constructible from the
\* source's declared type (its sourceType): P with P(x: Number) accepts a
\* Number, P with only P(x: String) does not.
C9_ImplicitConstruction ==
    /\ (BothPresent /\ IsClass(Dest) /\ ~EarlierRuleAccepts(Src, Dest)) =>
           (last.result <=> ImplicitlyConstructible(Dest, DeclaredType(Src)))
    /\ (IsMatch /\ last.src = "dInt" /\ last.dest = "dP") =>
           /\ "cP_int" \in Range(ChainFrom(findSymbolShallowly("sc_P", "P")))
                  => last.result
           /\ ChainFrom(findSymbolShallowly("sc_P", "P")) = <<"cP_str">>
                  => ~last.result

C9_Witness ==
    /\ IsMatch
    /\ last.src = "dFloat"
    /\ last.dest = "dP"
    /\ last.result
    /\ "P" \in DOMAIN accepted["sc_P"]
    /\ accepted["sc_P"]["P"] = <<"cP_str", "cP_2", "cP_int">>

====
